---- MODULE Spec2Model ----
(***************************************************************************)
(* tbviewer/mapfile.py: the OziExplorer .map codec (MapFile.parse_map,     *)
(* MapFile.to_str) and the four-corner calibration (MapFile.calibrate,     *)
(* MapFile.xy2latlon) as a state machine over one MapFile object.          *)
(*                                                                         *)
(* Python values are modelled as follows.                                  *)
(*   None            the empty tuple <<>>; a set value v is <<v>>          *)
(*   int             a TLA+ integer                                        *)
(*   float           an exact rational [n, d] in lowest terms (d > 0):     *)
(*                   binary rounding of IEEE doubles is not modelled       *)
(*   str (a line)    [ws, tag, f]: ws says whether the raw line carries    *)
(*                   leading or trailing whitespace, tag is the literal    *)
(*                   the line starts with, f the comma separated fields    *)
(*                   that follow it                                        *)
(*   str (a field)   a token: decimal integer text, decimal fraction text, *)
(*                   the repr of a float, the digits after "Point", or     *)
(*                   other text                                            *)
(*   exception       the name of its class; "none" when nothing is raised  *)
(***************************************************************************)
EXTENDS Integers, Sequences, FiniteSets, TLC

VARIABLES mf, ret

vars == <<mf, ret>>

-----------------------------------------------------------------------------
(* Python floats as exact rationals *)

Abs(i) == IF i < 0 THEN -i ELSE i

RECURSIVE GCD(_, _)
GCD(a, b) == IF b = 0 THEN a ELSE GCD(b, a % b)

Rat(n, d) ==
    LET s == IF d < 0 THEN -1 ELSE 1
        g == GCD(Abs(n), Abs(d))
    IN  [n |-> (s * n) \div g, d |-> Abs(d) \div g]

FInt(i) == [n |-> i, d |-> 1]

FAdd(a, b) == Rat(a.n * b.d + b.n * a.d, a.d * b.d)

FSub(a, b) == Rat(a.n * b.d - b.n * a.d, a.d * b.d)

FMul(a, b) == Rat(a.n * b.n, a.d * b.d)

\* a / b for b # 0; the callers raise ZeroDivisionError before using it on 0
FDiv(a, b) == Rat(a.n * b.d, a.d * b.n)

FNeg(a) == [n |-> -a.n, d |-> a.d]

FAbs(a) == [n |-> Abs(a.n), d |-> a.d]

FLt(a, b) == a.n * b.d < b.n * a.d

\* int(d) of a float: truncation toward zero
FTrunc(a) == IF a.n >= 0 THEN a.n \div a.d ELSE -((-a.n) \div a.d)

-----------------------------------------------------------------------------
(* Field text *)

\* digits written by the ".7f" of the templates
FracDigits == 7

\* the divisor of the minutes in a Point line
MinPerDeg == 60

RECURSIVE Pow10(_)
Pow10(k) == IF k = 0 THEN 1 ELSE 10 * Pow10(k - 1)

TokInt(v) == [k |-> "int", v |-> v]

TokDec(neg, ip, fr, dg) == [k |-> "dec", neg |-> neg, ip |-> ip, fr |-> fr, dg |-> dg]

TokStr(s) == [k |-> "str", s |-> s]

TokRepr(v) == [k |-> "repr", v |-> v]

\* a string of decimal digits (what follows "Point" in field 0 of a Point line)
TokDigits(ds) == [k |-> "digits", ds |-> ds]

\* int(text): only (blank padded) decimal integer text converts
ParseInt(tok) ==
    IF tok.k = "int" THEN [ok |-> TRUE, v |-> tok.v] ELSE [ok |-> FALSE, v |-> 0]

\* float(text): integer text, decimal fraction text and float reprs convert
ParseFloat(tok) ==
    CASE tok.k = "int" -> [ok |-> TRUE, v |-> FInt(tok.v)]
      [] tok.k = "dec" ->
            LET fr == Rat(tok.fr, Pow10(tok.dg))
                a  == [n |-> tok.ip * fr.d + fr.n, d |-> fr.d]
            IN  [ok |-> TRUE, v |-> IF tok.neg THEN FNeg(a) ELSE a]
      [] tok.k = "repr" -> [ok |-> TRUE, v |-> tok.v]
      [] OTHER -> [ok |-> FALSE, v |-> FInt(0)]

\* text.strip() == ""
IsBlank(tok) == tok.k = "str" /\ tok.s \in {"", " "}

\* "{:3.7f}".format(v): v rounded to FracDigits decimals (half to even)
RECURSIVE LongDiv(_, _, _, _)
LongDiv(rem, d, k, acc) ==
    IF k = 0 THEN [q |-> acc, rem |-> rem]
    ELSE LongDiv((rem * 10) % d, d, k - 1, acc * 10 + (rem * 10) \div d)

FormatF(v) ==
    LET a    == Abs(v.n)
        ip   == a \div v.d
        ld   == LongDiv(a % v.d, v.d, FracDigits, 0)
        up   == \/ 2 * ld.rem > v.d
                \/ 2 * ld.rem = v.d /\ ld.q % 2 = 1
        fr   == IF up THEN ld.q + 1 ELSE ld.q
        over == fr = Pow10(FracDigits)
    IN  TokDec(v.n < 0, IF over THEN ip + 1 ELSE ip, IF over THEN 0 ELSE fr, FracDigits)

\* str(v) of an int, a float or None
StrOfInt(o) == IF o = <<>> THEN TokStr("None") ELSE TokInt(o[1])

StrOfFloat(o) == IF o = <<>> THEN TokStr("None") ELSE TokRepr(o[1])

\* the decimal digits of a non-negative int
RECURSIVE Digits(_)
Digits(i) == IF i < 10 THEN <<i>> ELSE Append(Digits(i \div 10), i % 10)

\* int(text) of a digit string; the empty string does not convert
RECURSIVE DigitsVal(_)
DigitsVal(ds) ==
    IF ds = <<>> THEN 0 ELSE 10 * DigitsVal(SubSeq(ds, 1, Len(ds) - 1)) + ds[Len(ds)]

-----------------------------------------------------------------------------
(* Lines *)

Line(tag, f) == [ws |-> FALSE, tag |-> tag, f |-> f]

Text(s) == Line(s, <<>>)

\* line.strip()
strip(l) == [l EXCEPT !.ws = FALSE]

\* line.startswith(prefix), for the prefixes parse_map dispatches on
startswith(l, prefix) == l.tag = prefix

\* line.split(','): field 0 is the tag followed by f[1]; field i is f[i + 1]
Has(fields, i) == i + 1 <= Len(fields)

Field(fields, i) == fields[i + 1]

HEADER == Text("OziExplorer Map Data File Version 2.2")

-----------------------------------------------------------------------------
(* class Point, class MapFile *)

Point(x, y, lat, lon) == [idx |-> <<>>, x |-> x, y |-> y, lat |-> lat, lon |-> lon]

\* MapFile.clear: the state of a MapFile after construction as well
clear ==
    [filename |-> <<>>, img_filename |-> <<>>, img_filepath |-> <<>>,
     projection |-> <<>>, map_projection |-> <<>>,
     points |-> <<>>, mmpxy |-> <<>>, mmpll |-> <<>>,
     mmpnum |-> <<>>, mm1b |-> <<>>,
     image_width |-> <<>>, image_height |-> <<>>]

-----------------------------------------------------------------------------
(* _parse_point, _parse_mmpxy, _parse_mmpll *)

\* the exception of int(fields[i]) / float(fields[i]) / fields[i]
IntAt(fields, i) ==
    IF ~Has(fields, i) THEN "IndexError"
    ELSE IF ParseInt(Field(fields, i)).ok THEN "none" ELSE "ValueError"

FloatAt(fields, i) ==
    IF ~Has(fields, i) THEN "IndexError"
    ELSE IF ParseFloat(Field(fields, i)).ok THEN "none" ELSE "ValueError"

At(fields, i) == IF Has(fields, i) THEN "none" ELSE "IndexError"

\* fields[0][6:]: what follows "Point" and one more character
IndexText(fields) ==
    LET ds == Field(fields, 0).ds
    IN  IF Len(ds) <= 1 THEN <<>> ELSE Tail(ds)

IndexAt(fields) == IF IndexText(fields) = <<>> THEN "ValueError" ELSE "none"

\* the first exception raised by a sequence of evaluations
RECURSIVE FirstErr(_)
FirstErr(es) ==
    IF es = <<>> THEN "none"
    ELSE IF Head(es) # "none" THEN Head(es) ELSE FirstErr(Tail(es))

\* the lat and lon of a Point line: fields 9, 10 negated on field 8 = 'E',
\* fields 6, 7 negated on field 11 = 'S'
PointLat(fields) ==
    LET lat == FAdd(FInt(ParseInt(Field(fields, 9)).v),
                    FDiv(ParseFloat(Field(fields, 10)).v, FInt(MinPerDeg)))
    IN  IF Field(fields, 8) = TokStr("E") THEN FNeg(lat) ELSE lat

PointLon(fields) ==
    LET lon == FAdd(FInt(ParseInt(Field(fields, 6)).v),
                    FDiv(ParseFloat(Field(fields, 7)).v, FInt(MinPerDeg)))
    IN  IF Field(fields, 11) = TokStr("S") THEN FNeg(lon) ELSE lon

_parse_point(line) ==
    LET fields == line.f
        err == FirstErr(<<IntAt(fields, 2), IntAt(fields, 3),
                          IntAt(fields, 9), FloatAt(fields, 10),
                          IntAt(fields, 6), FloatAt(fields, 7),
                          IndexAt(fields), At(fields, 8), At(fields, 11)>>)
    IN  IF ~Has(fields, 2) THEN [exc |-> "IndexError", point |-> <<>>]
        ELSE IF IsBlank(Field(fields, 2)) THEN [exc |-> "none", point |-> <<>>]
        ELSE IF err # "none" THEN [exc |-> err, point |-> <<>>]
        ELSE [exc |-> "none",
              point |-> <<[idx |-> <<DigitsVal(IndexText(fields))>>,
                           x |-> ParseInt(Field(fields, 2)).v,
                           y |-> ParseInt(Field(fields, 3)).v,
                           lat |-> PointLat(fields),
                           lon |-> PointLon(fields)]>>]

_parse_mmpxy(line) ==
    LET fields == line.f
    IN  IF Len(fields) # 4 THEN [exc |-> "InvalidFileException", val |-> <<>>]
        ELSE IF FirstErr(<<IntAt(fields, 1), IntAt(fields, 2), IntAt(fields, 3)>>) # "none"
        THEN [exc |-> "InvalidFileException", val |-> <<>>]
        ELSE [exc |-> "none",
              val |-> <<ParseInt(Field(fields, 1)).v,
                        ParseInt(Field(fields, 2)).v,
                        ParseInt(Field(fields, 3)).v>>]

_parse_mmpll(line) ==
    LET fields == line.f
    IN  IF Len(fields) # 4 THEN [exc |-> "InvalidFileException", val |-> <<>>]
        ELSE IF FirstErr(<<IntAt(fields, 1), FloatAt(fields, 2), FloatAt(fields, 3)>>) # "none"
        THEN [exc |-> "InvalidFileException", val |-> <<>>]
        ELSE [exc |-> "none",
              val |-> <<ParseInt(Field(fields, 1)).v,
                        ParseFloat(Field(fields, 2)).v,
                        ParseFloat(Field(fields, 3)).v>>]

-----------------------------------------------------------------------------
(* MapFile.parse_map *)

\* one pass of the loop over content[9:]
parse_line(m, line) ==
    CASE startswith(line, "Point") ->
            LET r == _parse_point(line)
            IN  IF r.exc # "none" THEN [mf |-> m, exc |-> r.exc]
                ELSE IF r.point # <<>>
                THEN [mf |-> [m EXCEPT !.points = Append(@, r.point[1])], exc |-> "none"]
                ELSE [mf |-> m, exc |-> "none"]
      [] startswith(line, "IWH,Map Image Width/Height,") ->
            IF Len(line.f) = 2 /\ ParseInt(line.f[1]).ok /\ ParseInt(line.f[2]).ok
            THEN [mf |-> [m EXCEPT !.image_width = <<ParseInt(line.f[1]).v>>,
                                   !.image_height = <<ParseInt(line.f[2]).v>>],
                  exc |-> "none"]
            ELSE [mf |-> m, exc |-> "ValueError"]
      [] startswith(line, "MMPNUM,") ->
            IF Len(line.f) = 1 /\ ParseInt(line.f[1]).ok
            THEN [mf |-> [m EXCEPT !.mmpnum = <<ParseInt(line.f[1]).v>>], exc |-> "none"]
            ELSE [mf |-> m, exc |-> "ValueError"]
      [] startswith(line, "MMPLL") ->
            LET r == _parse_mmpll(line)
            IN  IF r.exc # "none" THEN [mf |-> m, exc |-> r.exc]
                ELSE IF r.val[1] - 1 # Len(m.mmpll)
                THEN [mf |-> m, exc |-> "NameError"]
                ELSE [mf |-> [m EXCEPT !.mmpll = Append(@, <<r.val[2], r.val[3]>>)],
                      exc |-> "none"]
      [] startswith(line, "MMPXY") ->
            LET r == _parse_mmpxy(line)
            IN  IF r.exc # "none" THEN [mf |-> m, exc |-> r.exc]
                ELSE IF r.val[1] - 1 # Len(m.mmpxy)
                THEN [mf |-> m, exc |-> "InvalidFileException"]
                ELSE [mf |-> [m EXCEPT !.mmpxy = Append(@, <<r.val[2], r.val[3]>>)],
                      exc |-> "none"]
      [] startswith(line, "MM1B,") ->
            IF Len(line.f) = 1 /\ ParseFloat(line.f[1]).ok
            THEN [mf |-> [m EXCEPT !.mm1b = <<ParseFloat(line.f[1]).v>>], exc |-> "none"]
            ELSE [mf |-> m, exc |-> "ValueError"]
      [] OTHER -> [mf |-> m, exc |-> "none"]

RECURSIVE parse_lines(_, _, _)
parse_lines(content, i, m) ==
    IF i > Len(content) THEN [mf |-> m, exc |-> "none"]
    ELSE LET r == parse_line(m, content[i])
         IN  IF r.exc # "none" THEN r ELSE parse_lines(content, i + 1, r.mf)

\* content is the text split on "\n": a non-empty sequence of raw lines.
\* content[i] of the code is content[i + 1] here.
\* parse_map with the header compared after lines 1-8 are stored
parse_map_late_header(text) ==
    LET content == [i \in 1..Len(text) |-> strip(text[i])]
        m8 == [clear EXCEPT !.img_filename = <<content[2]>>,
                            !.img_filepath = <<content[3]>>,
                            !.projection = <<content[5]>>,
                            !.map_projection = <<content[9]>>]
    IN  IF Len(content) < 9 THEN [mf |-> clear, exc |-> "IndexError"]
        ELSE IF content[1] # HEADER THEN [mf |-> m8, exc |-> "InvalidFileException"]
        ELSE parse_lines(content, 10, m8)

parse_map(text) ==
    LET content == [i \in 1..Len(text) |-> strip(text[i])]
        m1 == [clear EXCEPT !.img_filename = <<content[2]>>]
        m2 == [m1 EXCEPT !.img_filepath = <<content[3]>>]
        m4 == [m2 EXCEPT !.projection = <<content[5]>>]
        m8 == [m4 EXCEPT !.map_projection = <<content[9]>>]
    IN  IF content[1] # HEADER THEN [mf |-> clear, exc |-> "InvalidFileException"]
        ELSE IF Len(content) < 2 THEN [mf |-> clear, exc |-> "IndexError"]
        ELSE IF Len(content) < 3 THEN [mf |-> m1, exc |-> "IndexError"]
        ELSE IF Len(content) < 5 THEN [mf |-> m2, exc |-> "IndexError"]
        ELSE IF Len(content) < 9 THEN [mf |-> m4, exc |-> "IndexError"]
        ELSE parse_lines(content, 10, m8)

-----------------------------------------------------------------------------
(* degree2minsec, MapFile.to_str *)

degree2minsec(d, lz, gz) ==
    LET a == FAbs(d)
    IN  [deg  |-> FTrunc(a),
         min  |-> FMul(FSub(a, FInt(FTrunc(a))), FInt(MinPerDeg)),
         symb |-> IF FLt(d, FInt(0)) THEN lz ELSE gz]

\* _MAP_POINT_TEMPLATE filled for the point p at position idx
PointLine(idx, p) ==
    LET lat == degree2minsec(p.lat, "W", "E")
        lon == degree2minsec(p.lon, "S", "N")
    IN  Line("Point",
             <<TokDigits(Digits(idx)), TokStr("xy"), TokInt(p.x), TokInt(p.y),
               TokStr("in"), TokStr(" deg"),
               TokInt(lon.deg), FormatF(lon.min), TokStr(lon.symb),
               TokInt(lat.deg), FormatF(lat.min), TokStr(lat.symb),
               TokStr(" grid"), TokStr(" "), TokStr(" "), TokStr(" "), TokStr("N")>>)

\* _MAP_MMPXY_TEMPLATE, _MAP_MMPLL_TEMPLATE
MmpxyLine(idx, xy) == Line("MMPXY", <<TokStr(""), TokInt(idx), TokInt(xy[1]), TokInt(xy[2])>>)

MmpllLine(idx, ll) == Line("MMPLL", <<TokStr(""), TokInt(idx), FormatF(ll[1]), FormatF(ll[2])>>)

\* "\n".join(lines): no line at all still leaves one empty line in the template
Joined(lines) == IF lines = <<>> THEN <<Text("")>> ELSE lines

\* name or "dummy.jpg"
OrDummy(name) == IF name = <<>> \/ name = <<Text("")>> THEN Text("dummy.jpg") ELSE name[1]

to_str(m) ==
    <<HEADER, OrDummy(m.img_filename), OrDummy(m.img_filepath),
      Text("1 ,Map Code,"),
      Text("WGS 84,WGS 84,   0.0000,   0.0000,WGS 84"),
      Text("Reserved 1"), Text("Reserved 2"),
      Text("Magnetic Variation,,,E"),
      Text("Map Projection,Latitude/Longitude,PolyCal,No,AutoCalOnly,No,BSBUseWPX,No")>>
    \o Joined([i \in 1..Len(m.points) |-> PointLine(i - 1, m.points[i])])
    \o <<Text("Projection Setup,,,,,,,,,,"),
         Text("Map Feature = MF ; Map Comment = MC     These follow if they exist"),
         Text("Track File = TF      These follow if they exist"),
         Text("Moving Map Parameters = MM?    These follow if they exist"),
         Text("MM0,Yes"),
         Line("MMPNUM,", <<TokInt(Len(m.mmpxy))>>)>>
    \o Joined([i \in 1..Len(m.mmpxy) |-> MmpxyLine(i, m.mmpxy[i])])
    \o Joined([i \in 1..Len(m.mmpll) |-> MmpllLine(i, m.mmpll[i])])
    \o <<Line("MM1B,", <<StrOfFloat(m.mm1b)>>),
         Text("MOP,Map Open Position,0,0"),
         Line("IWH,Map Image Width/Height,",
              <<StrOfInt(m.image_width), StrOfInt(m.image_height)>>),
         Text("")>>

-----------------------------------------------------------------------------
(* MapFile.set_points, _sort_points, _calibrate_calculate, MapFile.calibrate *)

\* points: a list of (x, y, lat, lon) tuples
set_points(m, points) ==
    [m EXCEPT !.points = [i \in 1..Len(points) |->
                             Point(points[i][1], points[i][2], points[i][3], points[i][4])]]

\* dist_from squared: the square root keeps the order
DistSq(pos, x0, y0) == (pos.x - x0) * (pos.x - x0) + (pos.y - y0) * (pos.y - y0)

\* sorted(positions, key=dist_from(., x0, y0))[0]: the sort is stable, the first
\* of the nearest wins
Nearest(positions, x0, y0) ==
    LET i == CHOOSE i \in 1..Len(positions) :
                 /\ \A j \in 1..Len(positions) :
                        DistSq(positions[i], x0, y0) <= DistSq(positions[j], x0, y0)
                 /\ \A j \in 1..(i - 1) :
                        DistSq(positions[j], x0, y0) > DistSq(positions[i], x0, y0)
    IN  positions[i]

\* (nw, ne, se, sw), or [] for no positions
\* _sort_points with the south corners returned west first
_sort_points_south_swapped(positions, width, height) ==
    IF positions = <<>> THEN <<>>
    ELSE <<Nearest(positions, 0, 0), Nearest(positions, width, 0),
           Nearest(positions, 0, height), Nearest(positions, width, height)>>

_sort_points(positions, width, height) ==
    IF positions = <<>> THEN <<>>
    ELSE <<Nearest(positions, 0, 0), Nearest(positions, width, 0),
           Nearest(positions, width, height), Nearest(positions, 0, height)>>

\* (a - b) / (p - q), p and q pixel coordinates
Slope(a, b, p, q) == FDiv(FSub(a, b), FInt(p - q))

\* one image edge: ds = (a - b) / (pa - pb); the value at pixel 0 is
\* v0 - ds * p0 and the value at the far end is that + ds * len
Edge(a, b, pa, pb, v0, p0, len) ==
    LET ds == Slope(a, b, pa, pb)
        near == FSub(v0, FMul(ds, FInt(p0)))
    IN  <<near, FAdd(near, FMul(ds, FInt(len)))>>

\* res of _calibrate_calculate from the four edges: north = (nw_lat, ne_lat),
\* south = (sw_lat, se_lat), west = (nw_lon, sw_lon), east = (ne_lon, se_lon)
Corners(north, south, west, east, w, h) ==
    << <<0, 0, north[1], west[1]>>, <<w, 0, north[2], east[1]>>,
       <<w, h, south[2], east[2]>>, <<0, h, south[1], west[2]>> >>

\* the body of _calibrate_calculate after nw, ne, se, sw = poss
Extrapolate(nw, ne, se, sw, w, h) ==
    IF nw.x = ne.x \/ se.x = sw.x \/ nw.y = sw.y \/ ne.y = se.y
    THEN [exc |-> "ZeroDivisionError", res |-> <<>>]
    ELSE [exc |-> "none",
          res |-> Corners(Edge(nw.lat, ne.lat, nw.x, ne.x, nw.lat, nw.x, w),
                          Edge(se.lat, sw.lat, se.x, sw.x, sw.lat, sw.x, w),
                          Edge(nw.lon, sw.lon, nw.y, sw.y, nw.lon, nw.y, h),
                          Edge(ne.lon, se.lon, ne.y, se.y, ne.lon, ne.y, h), w, h)]

\* nw, ne, se, sw = poss
Unpack(poss, w, h) == Extrapolate(poss[1], poss[2], poss[3], poss[4], w, h)

_calibrate_calculate(positions, width, height) ==
    IF positions = <<>> THEN [exc |-> "ValueError", res |-> <<>>]
    ELSE IF width = <<>> \/ height = <<>> THEN [exc |-> "TypeError", res |-> <<>>]
    ELSE Unpack(_sort_points(positions, width[1], height[1]), width[1], height[1])

\* d_lat_dist / image_width, kept as the term it is computed from (math.cos has
\* no exact value): abs() and the evenness of cos make the signs irrelevant
Scale(d_lat, lon_avg, width) ==
    [d_lat |-> FAbs(d_lat), lon_avg |-> FAbs(lon_avg), width |-> width]

\* mm1b of calibrate from the new mmpll
Mm1b(mmpll, width) ==
    Scale(FSub(FDiv(FAdd(mmpll[2][1], mmpll[3][1]), FInt(2)),
               FDiv(FAdd(mmpll[1][1], mmpll[4][1]), FInt(2))),
          FDiv(FAdd(FAdd(mmpll[1][2], mmpll[4][2]), FAdd(mmpll[2][2], mmpll[3][2])),
               FInt(4)),
          width)

\* calibrate after mmp = _calibrate_calculate(...) has returned: the corners
\* are stored before mm1b divides by image_width
StoreCorners(m, mmp) ==
    [m EXCEPT !.mmpxy = [i \in 1..Len(mmp) |-> <<mmp[i][1], mmp[i][2]>>],
              !.mmpll = [i \in 1..Len(mmp) |-> <<mmp[i][3], mmp[i][4]>>],
              !.mmpnum = <<Len(mmp)>>]

StoreScale(m) ==
    IF m.image_width[1] = 0 THEN [mf |-> m, exc |-> "ZeroDivisionError"]
    ELSE [mf |-> [m EXCEPT !.mm1b = <<Mm1b(m.mmpll, m.image_width[1])>>], exc |-> "none"]

Calibrated(m, r) ==
    IF r.exc # "none" THEN [mf |-> m, exc |-> r.exc] ELSE StoreScale(StoreCorners(m, r.res))

calibrate(m) == Calibrated(m, _calibrate_calculate(m.points, m.image_width, m.image_height))

-----------------------------------------------------------------------------
(* MapFile.validate, MapFile.xy2latlon, _map_xy_lonlat, _intersect_lines *)

\* validate without the comparison with mmpnum
validate_lengths_only(m) ==
    /\ Len(m.mmpxy) = Len(m.mmpll)
    /\ Len(m.mmpll) = 4

validate(m) ==
    /\ m.mmpnum = <<Len(m.mmpxy)>>
    /\ Len(m.mmpxy) = Len(m.mmpll)
    /\ Len(m.mmpll) = 4

\* _det with the sign of the second product slipped
_det_sum(a, b, c, d) == FAdd(FMul(a, d), FMul(b, c))

_det(a, b, c, d) == FSub(FMul(a, d), FMul(b, c))

_intersect_lines(x1, y1, x2, y2, x3, y3, x4, y4) ==
    LET d0 == _det(FSub(x1, x2), FSub(y1, y2), FSub(x3, x4), FSub(y3, y4))
        d  == IF d0 = FInt(0) THEN FInt(1) ELSE d0
        d1 == _det(x1, y1, x2, y2)
        d2 == _det(x3, y3, x4, y4)
    IN  <<FDiv(_det(d1, FSub(x1, x2), d2, FSub(x3, x4)), d),
          FDiv(_det(d1, FSub(y1, y2), d2, FSub(y3, y4)), d)>>

\* (p * a + q * b) / s
Blend(p, a, q, b, s) == FDiv(FAdd(FMul(FInt(p), a), FMul(FInt(q), b)), FInt(s))

_map_xy_lonlat(xy0, xy1, xy2, xy3, sx, sy, x, y) ==
    LET syy == sy - y
        sxx == sx - x
    IN  _intersect_lines(
            Blend(syy, xy0[1], y, xy3[1], sy), Blend(syy, xy0[2], y, xy3[2], sy),
            Blend(syy, xy1[1], y, xy2[1], sy), Blend(syy, xy1[2], y, xy2[2], sy),
            Blend(sxx, xy0[1], x, xy1[1], sx), Blend(sxx, xy0[2], x, xy1[2], sx),
            Blend(sxx, xy3[1], x, xy2[1], sx), Blend(sxx, xy3[2], x, xy2[2], sx))

xy2latlon(m, x, y) ==
    IF m.mmpll = <<>> THEN [exc |-> "none", val |-> <<>>]
    ELSE IF Len(m.mmpll) < 4 THEN [exc |-> "IndexError", val |-> <<>>]
    ELSE IF m.image_width = <<>> \/ m.image_height = <<>>
    THEN [exc |-> "TypeError", val |-> <<>>]
    ELSE IF m.image_width[1] = 0 \/ m.image_height[1] = 0
    THEN [exc |-> "ZeroDivisionError", val |-> <<>>]
    ELSE [exc |-> "none",
          val |-> <<_map_xy_lonlat(m.mmpll[1], m.mmpll[2], m.mmpll[3], m.mmpll[4],
                                   m.image_width[1], m.image_height[1], x, y)>>]

-----------------------------------------------------------------------------
(* Inputs: the texts handed to parse_map *)

\* image widths and heights run over 1..MaxSize
MaxSize == 2

Sizes == {<<w, h>> : w \in 1..MaxSize, h \in 1..MaxSize}

Dec(ip, fr, dg) == TokDec(FALSE, ip, fr, dg)

\* a Point line with the digits ds after "Point", pixel fields x and y,
\* fields 6..8 (d6, m7, l8) and fields 9..11 (d9, m10, l11)
PointText(ds, x, y, d6, m7, l8, d9, m10, l11) ==
    Line("Point",
         <<TokDigits(ds), TokStr("xy"), x, y, TokStr("in"), TokStr(" deg"),
           d6, m7, TokStr(l8), d9, m10, TokStr(l11),
           TokStr(" grid"), TokStr(" "), TokStr(" "), TokStr(" "), TokStr("N")>>)

PtA == PointText(<<0, 1>>, TokInt(1), TokInt(2),
                 TokInt(20), Dec(30, 5, 1), "N", TokInt(10), Dec(15, 25, 2), "W")

PtNeg == PointText(<<0, 2>>, TokInt(2), TokInt(1),
                   TokInt(5), Dec(45, 0, 1), "E", TokInt(3), TokInt(30), "S")

PtBlank == PointText(<<0, 3>>, TokStr(" "), TokStr(" "),
                     TokStr(" "), TokStr(" "), "N", TokStr(" "), TokStr(" "), "W")

PtBadInt == PointText(<<0, 2>>, TokInt(1), TokStr("x"),
                      TokInt(20), Dec(30, 5, 1), "N", TokInt(10), Dec(15, 25, 2), "W")

PtBadMin == PointText(<<0, 1>>, TokInt(1), TokInt(2),
                      TokInt(20), Dec(30, 5, 1), "N", TokInt(10), TokStr("x"), "W")

PtShort == Line("Point", <<TokDigits(<<0, 1>>), TokStr("xy"), TokInt(1)>>)

PtIdx0 == PointText(<<0>>, TokInt(1), TokInt(2),
                    TokInt(20), Dec(30, 5, 1), "N", TokInt(10), Dec(15, 25, 2), "W")

PointsSec(j) ==
    CASE j = 1 -> <<PtA>>
      [] j = 2 -> <<>>
      [] j = 3 -> <<PtA, PtNeg>>
      [] j = 4 -> <<PtBlank, PtA>>
      [] j = 5 -> <<PtA, PtBadInt>>
      [] j = 6 -> <<PtShort>>
      [] j = 7 -> <<PtIdx0>>
      [] j = 8 -> <<PtBadMin>>

NumSec(j) ==
    CASE j = 1 -> <<Line("MMPNUM,", <<TokInt(4)>>)>>
      [] j = 2 -> <<>>
      [] j = 3 -> <<Line("MMPNUM,", <<TokInt(3)>>)>>
      [] j = 4 -> <<Line("MMPNUM,", <<TokStr("x")>>)>>

Xy(id, x, y) == Line("MMPXY", <<TokStr(""), id, x, y>>)

XySec(j, w, h) ==
    LET c1 == Xy(TokInt(1), TokInt(0), TokInt(0))
        c2 == Xy(TokInt(2), TokInt(w), TokInt(0))
        c3 == Xy(TokInt(3), TokInt(w), TokInt(h))
        c4 == Xy(TokInt(4), TokInt(0), TokInt(h))
    IN  CASE j = 1 -> <<c1, c2, c3, c4>>
          [] j = 2 -> <<>>
          [] j = 3 -> <<c1, c2, c3>>
          [] j = 4 -> <<c1, c3, c4>>
          [] j = 5 -> <<c1, Xy(TokInt(2), TokStr("x"), TokInt(0)), c3, c4>>
          [] j = 6 -> <<c1, Line("MMPXY", <<TokStr(""), TokInt(2), TokInt(w)>>), c3, c4>>
          [] j = 7 -> <<c2, c3, c4>>

Ll(id, a, b) == Line("MMPLL", <<TokStr(""), id, a, b>>)

LlSec(j) ==
    LET c1 == Ll(TokInt(1), TokInt(10), TokInt(20))
        c2 == Ll(TokInt(2), TokInt(10), TokInt(21))
        c3 == Ll(TokInt(3), TokInt(9), TokInt(21))
        c4 == Ll(TokInt(4), TokInt(9), TokInt(20))
    IN  CASE j = 1 -> <<c1, c2, c3, c4>>
          [] j = 2 -> <<>>
          [] j = 3 -> <<c1, c2, c3>>
          [] j = 4 -> <<c1, c3, c4>>
          [] j = 5 -> <<c1, Ll(TokInt(2), TokStr("x"), TokInt(21)), c3, c4>>
          [] j = 6 -> <<c1, Line("MMPLL", <<TokStr(""), TokInt(2), TokInt(10)>>), c3, c4>>
          [] j = 7 -> <<c2, c3, c4>>
          \* a value with more decimals than the template writes
          [] j = 8 -> <<Ll(TokInt(1), Dec(10, 12345678, 8), TokInt(20)), c2, c3, c4>>
          \* four equal corners
          [] j = 9 -> <<Ll(TokInt(1), TokInt(1), TokInt(1)), Ll(TokInt(2), TokInt(1), TokInt(1)),
                        Ll(TokInt(3), TokInt(1), TokInt(1)), Ll(TokInt(4), TokInt(1), TokInt(1))>>
          \* NW, NE and SE on one line
          [] j = 10 -> <<Ll(TokInt(1), TokInt(1), TokInt(1)), Ll(TokInt(2), TokInt(2), TokInt(2)),
                         Ll(TokInt(3), TokInt(3), TokInt(3)), Ll(TokInt(4), TokInt(0), TokInt(5))>>
          \* a general quadrilateral
          [] j = 11 -> <<Ll(TokInt(1), Dec(10, 5, 1), TokInt(20)), Ll(TokInt(2), TokInt(11), Dec(22, 25, 2)),
                         Ll(TokInt(3), TokInt(8), TokInt(23)), Ll(TokInt(4), TokDec(TRUE, 1, 5, 1), TokInt(19))>>
          \* a skewed map, north up: SW, NW and NE on one line
          [] j = 12 -> <<Ll(TokInt(1), TokInt(2), TokInt(0)), Ll(TokInt(2), TokInt(4), TokInt(2)),
                         Ll(TokInt(3), TokInt(3), TokInt(0)), Ll(TokInt(4), TokInt(0), TokInt(-2))>>

ScaleSec(j) ==
    CASE j = 1 -> <<Line("MM1B,", <<Dec(0, 5, 1)>>)>>
      [] j = 2 -> <<>>
      [] j = 3 -> <<Line("MM1B,", <<TokStr("x")>>)>>

IwhSec(j, w, h) ==
    CASE j = 1 -> <<Line("IWH,Map Image Width/Height,", <<TokInt(w), TokInt(h)>>)>>
      [] j = 2 -> <<>>
      [] j = 3 -> <<Line("IWH,Map Image Width/Height,", <<TokInt(w), TokStr("x")>>)>>
      [] j = 4 -> <<Line("IWH,Map Image Width/Height,", <<TokInt(w)>>)>>
      [] j = 5 -> <<Line("IWH,Map Image Width/Height,", <<TokInt(0), TokInt(0)>>)>>

HeaderSec(j) ==
    CASE j = 1 -> HEADER
      [] j = 2 -> [HEADER EXCEPT !.ws = TRUE]
      [] j = 3 -> Text("OziExplorer Map Data File Version 2.1")
      [] j = 4 -> Text("")

NameSec(j) ==
    CASE j = 1 -> Text("img.jpg")
      [] j = 2 -> Text("")
      [] j = 3 -> [Text("img.jpg") EXCEPT !.ws = TRUE]

\* the number of variants of section i (1 header, 2 names, 3 points, 4 MMPNUM,
\* 5 MMPXY, 6 MMPLL, 7 MM1B, 8 IWH)
NVariants(i) ==
    CASE i = 1 -> 4 [] i = 2 -> 3 [] i = 3 -> 8 [] i = 4 -> 4
      [] i = 5 -> 7 [] i = 6 -> 12 [] i = 7 -> 3 [] i = 8 -> 5

\* a text is the well-formed one, variant 1 of every section, with at most one
\* section replaced: dev = <<i, j>> puts variant j in section i
Var(dev, i) == IF dev[1] = i THEN dev[2] ELSE 1

MkText(dev, w, h) ==
    <<HeaderSec(Var(dev, 1)), NameSec(Var(dev, 2)), NameSec(Var(dev, 2)),
      Text("1 ,Map Code,"),
      Text("WGS 84,WGS 84,   0.0000,   0.0000,WGS 84"),
      Text("Reserved 1"), Text("Reserved 2"),
      Text("Magnetic Variation,,,E"),
      Text("Map Projection,Latitude/Longitude,PolyCal,No,AutoCalOnly,No,BSBUseWPX,No")>>
    \o PointsSec(Var(dev, 3))
    \o <<Text("MM0,Yes")>>
    \o NumSec(Var(dev, 4))
    \o XySec(Var(dev, 5), w, h)
    \o LlSec(Var(dev, 6))
    \o ScaleSec(Var(dev, 7))
    \o IwhSec(Var(dev, 8), w, h)

Deviations == {<<i, j>> : i \in 1..8, j \in 1..12} \cap {d \in Nat \X Nat : d[2] <= NVariants(d[1])}

\* the first n lines of a text: "".split("\n") is [""], never []
Truncated(t, n) == SubSeq(t, 1, n)

Texts ==
    {MkText(dev, 1, MaxSize) : dev \in Deviations}
    \cup {MkText(<<1, 1>>, s[1], s[2]) : s \in Sizes}
    \cup {Truncated(MkText(<<1, 1>>, 1, 1), n) : n \in {1, 2, 4, 8}}
    \cup {<<Text("")>>}

\* the texts of the calibration runs: well-formed ones, with the corner
\* variants that matter to xy2latlon and the image size present, absent or 0
CalibTexts ==
    {MkText(<<6, j>>, s[1], s[2]) : j \in {1, 2, 3, 9, 10, 11, 12}, s \in Sizes}
    \cup {MkText(<<8, j>>, s[1], s[2]) : j \in {2, 5}, s \in Sizes}

-----------------------------------------------------------------------------
(* Inputs: the points handed to set_points *)

Half == [n |-> 1, d |-> 2]

\* the four picks at the corners of a w x h image, each with its own (lat, lon)
CornerPick(c, w, h) ==
    CASE c = 1 -> <<0, 0, Half, FInt(20)>>
      [] c = 2 -> <<w, 0, FInt(3), Rat(41, 2)>>
      [] c = 3 -> <<w, h, Rat(7, 3), FInt(23)>>
      [] c = 4 -> <<0, h, FInt(-1), FInt(22)>>

Orders == {o \in [1..4 -> 1..4] : \A i, j \in 1..4 : o[i] = o[j] => i = j}

CornerPicks(w, h) == {[i \in 1..4 |-> CornerPick(o[i], w, h)] : o \in Orders}

OtherPicks ==
    LET p1 == <<1, 1, FInt(10), FInt(20)>>
        p2 == <<1, 2, FInt(9), FInt(21)>>
        p3 == <<0, 0, FInt(-10), Rat(1, 7)>>
        p4 == <<2, 0, FInt(12), FInt(-20)>>
        p5 == <<2, 2, Rat(21, 2), FInt(-22)>>
        p6 == <<0, 2, FInt(8), FInt(19)>>
    IN  {<<>>, <<p1>>, <<p1, p1>>, <<p1, p2>>, <<p3, p4, p5, p6>>, <<p3, p4, p2, p6>>}

\* the lists set_points is called with on the MapFile m: the corner picks of
\* its own image size, in every order, and the other lists
PointLists(m) ==
    OtherPicks \cup
    (IF m.image_width # <<>> /\ m.image_height # <<>>
     THEN CornerPicks(m.image_width[1], m.image_height[1]) ELSE {})

-----------------------------------------------------------------------------
(* The state machine: one MapFile and the outcome of the last call on it *)

Outcome(op, arg, exc, val) == [op |-> op, arg |-> arg, exc |-> exc, val |-> val]

\* MapFile(): __init__ calls clear
Init ==
    /\ mf = clear
    /\ ret = Outcome("__init__", <<>>, "none", <<>>)

\* parse_map is a function of the text alone (it starts with clear()): its
\* results on the input texts are tabulated once
Parsed == {<<text, parse_map(text)>> : text \in Texts}

ParsedCalib == {<<text, parse_map(text)>> : text \in CalibTexts}

\* parse_map(content) on a text of the codec runs
ParseMap ==
    \E p \in Parsed :
        /\ mf' = p[2].mf
        /\ ret' = Outcome("parse_map", p[1], p[2].exc, <<>>)

\* parse_map(content) on a text of the calibration runs
ParseCalib ==
    \E p \in ParsedCalib :
        /\ mf' = p[2].mf
        /\ ret' = Outcome("parse_map", p[1], p[2].exc, <<>>)

\* to_str()
ToStr ==
    /\ ret' = Outcome("to_str", <<>>, "none", to_str(mf))
    /\ UNCHANGED mf

\* parse_map on the text to_str has just returned
ParseOutput ==
    /\ ret.op = "to_str"
    /\ LET r == parse_map(ret.val)
       IN  /\ mf' = r.mf
           /\ ret' = Outcome("parse_map", ret.val, r.exc, <<>>)

\* set_points(points)
SetPoints ==
    \E points \in PointLists(mf) :
        /\ mf' = set_points(mf, points)
        /\ ret' = Outcome("set_points", points, "none", <<>>)

\* set_points(points) with one of the lists that do not depend on the image
SetOtherPoints ==
    \E points \in OtherPicks :
        /\ mf' = set_points(mf, points)
        /\ ret' = Outcome("set_points", points, "none", <<>>)

\* calibrate()
Calibrate ==
    LET r == calibrate(mf)
    IN  /\ mf' = r.mf
        /\ ret' = Outcome("calibrate", <<>>, r.exc, <<>>)

\* validate()
Validate ==
    /\ ret' = Outcome("validate", <<>>, "none", validate(mf))
    /\ UNCHANGED mf

\* xy2latlon(x, y)
Xy2latlon ==
    \E x \in 0..MaxSize, y \in 0..MaxSize :
        LET r == xy2latlon(mf, x, y)
        IN  /\ ret' = Outcome("xy2latlon", <<x, y>>, r.exc, r.val)
            /\ UNCHANGED mf

\* clear()
Clear ==
    /\ mf' = clear
    /\ ret' = Outcome("clear", <<>>, "none", <<>>)

\* the codec: parse_map, to_str, validate, with points set by hand
Next ==
    \/ ParseMap
    \/ ToStr
    \/ ParseOutput
    \/ SetOtherPoints
    \/ Validate
    \/ Clear

Spec == Init /\ [][Next]_vars

\* the calibration: set_points, calibrate, validate on parsed records
NextCalib ==
    \/ ParseCalib
    \/ SetPoints
    \/ Calibrate
    \/ Validate

SpecCalib == Init /\ [][NextCalib]_vars

\* the inversion: xy2latlon on parsed and on calibrated records
NextInvert ==
    \/ ParseCalib
    \/ SetOtherPoints
    \/ Calibrate
    \/ Xy2latlon

SpecInvert == Init /\ [][NextInvert]_vars

-----------------------------------------------------------------------------
(* Notions the claims are stated with *)

\* the fields the codec controls
Controlled(m) ==
    <<m.img_filename, m.img_filepath, m.points, m.mmpxy, m.mmpll,
      m.mmpnum, m.mm1b, m.image_width, m.image_height>>

\* parse_map(text) has read the lines before line i (of content[9:]) without
\* failing, so that it goes on to line i
Reached(text, i) ==
    /\ i >= 10
    /\ i <= Len(text)
    /\ parse_map(SubSeq(text, 1, i - 1)).exc = "none"

\* the record as it stands when parse_map comes to line i
Before(text, i) == parse_map(SubSeq(text, 1, i - 1)).mf

\* line i is a well-formed MMPLL or MMPXY line whose point_id is not the next one
OutOfOrderAt(text, i) ==
    LET l == strip(text[i])
    IN  \/ /\ startswith(l, "MMPLL")
           /\ _parse_mmpll(l).exc = "none"
           /\ _parse_mmpll(l).val[1] # Len(Before(text, i).mmpll) + 1
        \/ /\ startswith(l, "MMPXY")
           /\ _parse_mmpxy(l).exc = "none"
           /\ _parse_mmpxy(l).val[1] # Len(Before(text, i).mmpxy) + 1

\* a field of the line that parse_map converts to a number does not convert
BadNumber(l) ==
    CASE startswith(l, "Point") ->
            /\ Has(l.f, 2)
            /\ ~IsBlank(Field(l.f, 2))
            /\ FirstErr(<<IntAt(l.f, 2), IntAt(l.f, 3), IntAt(l.f, 9), FloatAt(l.f, 10),
                          IntAt(l.f, 6), FloatAt(l.f, 7), IndexAt(l.f)>>) = "ValueError"
      [] startswith(l, "IWH,Map Image Width/Height,") ->
            Len(l.f) = 2 /\ \E k \in 1..2 : ~ParseInt(l.f[k]).ok
      [] startswith(l, "MMPNUM,") -> Len(l.f) = 1 /\ ~ParseInt(l.f[1]).ok
      [] startswith(l, "MM1B,") -> Len(l.f) = 1 /\ ~ParseFloat(l.f[1]).ok
      [] startswith(l, "MMPLL") ->
            Len(l.f) = 4 /\ \E k \in 1..3 :
                IF k = 1 THEN ~ParseInt(Field(l.f, k)).ok ELSE ~ParseFloat(Field(l.f, k)).ok
      [] startswith(l, "MMPXY") ->
            Len(l.f) = 4 /\ \E k \in 1..3 : ~ParseInt(Field(l.f, k)).ok
      [] OTHER -> FALSE

\* the number of lines of content[9:] that start with tag
RECURSIVE CountFrom(_, _, _)
CountFrom(text, i, tag) ==
    IF i > Len(text) THEN 0
    ELSE (IF startswith(strip(text[i]), tag) THEN 1 ELSE 0) + CountFrom(text, i + 1, tag)

\* mmpnum, len(mmpxy) and len(mmpll) are all equal
CountsAgree(m) == m.mmpnum = <<Len(m.mmpxy)>> /\ Len(m.mmpxy) = Len(m.mmpll)

\* |a - b| <= 1e-7
Close(a, b) ==
    LET e == FAbs(FSub(a, b))
    IN  \/ e.n = 0
        \/ e.d \div e.n > 10000000
        \/ e.d \div e.n = 10000000 /\ e.d % e.n = 0

\* -180 < d < 180
InRange(d) == FLt(FInt(-180), d) /\ FLt(d, FInt(180))

\* the image size is set and positive
SizePositive(m) ==
    /\ m.image_width # <<>> /\ m.image_height # <<>>
    /\ m.image_width[1] > 0 /\ m.image_height[1] > 0

\* the pixel of image corner k (1 NW, 2 NE, 3 SE, 4 SW)
CornerPixel(m, k) ==
    CASE k = 1 -> <<0, 0>>
      [] k = 2 -> <<m.image_width[1], 0>>
      [] k = 3 -> <<m.image_width[1], m.image_height[1]>>
      [] k = 4 -> <<0, m.image_height[1]>>

\* (b - a) x (c - a), the cross product of two sides meeting at a
Cross(a, b, c) ==
    FSub(FMul(FSub(b[1], a[1]), FSub(c[2], a[2])), FMul(FSub(b[2], a[2]), FSub(c[1], a[1])))

\* the two sides of the quadrilateral mmpll that meet at corner k are not parallel
SidesMeet(m, k) ==
    Cross(m.mmpll[k], m.mmpll[IF k = 1 THEN 4 ELSE k - 1], m.mmpll[IF k = 4 THEN 1 ELSE k + 1])
        # FInt(0)

\* mmpll reads NW, NE, SE, SW on a map with north up: each east corner east of
\* its west corner, each north corner north of its south corner
InOrder(m) ==
    /\ FLt(m.mmpll[1][2], m.mmpll[2][2])
    /\ FLt(m.mmpll[4][2], m.mmpll[3][2])
    /\ FLt(m.mmpll[4][1], m.mmpll[1][1])
    /\ FLt(m.mmpll[3][1], m.mmpll[2][1])

\* points holds exactly four points, one at each corner pixel of the image
ExactCornerPicks(m) ==
    /\ SizePositive(m)
    /\ Len(m.points) = 4
    /\ \A k \in 1..4 : \E i \in 1..4 : <<m.points[i].x, m.points[i].y>> = CornerPixel(m, k)

\* the (lat, lon) of the point picked at the pixel of corner k
PickedAt(m, k) ==
    LET i == CHOOSE i \in 1..Len(m.points) : <<m.points[i].x, m.points[i].y>> = CornerPixel(m, k)
    IN  <<m.points[i].lat, m.points[i].lon>>

-----------------------------------------------------------------------------
(* The claims *)

\* C1 (as claimed): whenever parse_map accepts a text, to_str() of the record
\* is accepted by parse_map too and parses to the same record in every field
\* the codec controls.
C1_RoundTrip ==
    (ret.op = "parse_map" /\ ret.exc = "none") =>
        LET r == parse_map(to_str(mf))
        IN  r.exc = "none" /\ Controlled(r.mf) = Controlled(mf)

\* C2 (as claimed): an MMPLL or MMPXY line whose point_id is not the next one
\* makes parse_map fail with InvalidFileException, and its corner is not appended.
C2_OutOfOrderTyped ==
    ret.op = "parse_map" =>
        \A i \in 10..Len(ret.arg) :
            (Reached(ret.arg, i) /\ OutOfOrderAt(ret.arg, i)) =>
                /\ ret.exc = "InvalidFileException"
                /\ mf.mmpll = Before(ret.arg, i).mmpll
                /\ mf.mmpxy = Before(ret.arg, i).mmpxy

\* C3 (as claimed): a field that fails to convert to a number, in any line from
\* line 9 on, makes parse_map fail with InvalidFileException.
C3_BadFieldTyped ==
    ret.op = "parse_map" =>
        \A i \in 10..Len(ret.arg) :
            (Reached(ret.arg, i) /\ BadNumber(strip(ret.arg[i]))) =>
                ret.exc = "InvalidFileException"

\* C4 (as claimed): parse_map never returns successfully with a record in which
\* mmpnum, len(mmpxy) and len(mmpll) are not all equal.
C4_MismatchFails ==
    (ret.op = "parse_map" /\ ret.exc = "none") => CountsAgree(mf)

\* C4 (amended): parse_map does not compare the counts. When it returns
\* successfully the record holds every MMPXY and MMPLL line of the text, neither
\* truncated nor padded; and validate() returns false on every record in which
\* mmpnum, len(mmpxy) and len(mmpll) are not all equal.
C4_MismatchInvalid ==
    /\ (ret.op = "parse_map" /\ ret.exc = "none" /\ Len(ret.arg) >= 9) =>
            /\ Len(mf.mmpxy) = CountFrom(ret.arg, 10, "MMPXY")
            /\ Len(mf.mmpll) = CountFrom(ret.arg, 10, "MMPLL")
    /\ (ret.op = "validate" /\ ~CountsAgree(mf)) => ret.val = FALSE

\* C4 witness: validate() has answered on a record with four MMPXY corners and
\* another declared count.
C4_Witness ==
    /\ ret.op = "validate"
    /\ Len(mf.mmpxy) = 4
    /\ mf.mmpnum = <<3>>
    /\ ret.val = FALSE

\* C6 (as claimed): after a failed parse_map the MapFile holds nothing of the
\* text: no points, no corners, no mmpnum, and validate() is false.
C6_NoPartialRecord ==
    (ret.op = "parse_map" /\ ret.exc # "none") =>
        /\ mf.points = <<>>
        /\ mf.mmpxy = <<>>
        /\ mf.mmpll = <<>>
        /\ mf.mmpnum = <<>>
        /\ ~validate(mf)

\* C7 (as claimed): the lat and the lon of every point, between -180 and 180,
\* come back within 1e-7 from the Point line to_str writes for the point, read
\* by the rule of _parse_point.
C7_DegreeInverse ==
    \A i \in 1..Len(mf.points) :
        LET p == mf.points[i]
            fields == PointLine(i - 1, p).f
        IN  /\ InRange(p.lat) => Close(PointLat(fields), p.lat)
            /\ InRange(p.lon) => Close(PointLon(fields), p.lon)

\* C10 (as claimed): a text whose first line is not exactly the header literal,
\* surrounding whitespace included, fails with InvalidFileException and fills
\* no field.
C10_ExactHeader ==
    (ret.op = "parse_map" /\ ret.arg[1] # HEADER) =>
        (ret.exc = "InvalidFileException" /\ mf = clear)

\* C10 (amended): a text whose first line, with its leading and trailing
\* whitespace removed, is not the header literal (an empty text included) fails
\* with InvalidFileException and fills no field.
C10_HeaderCheck ==
    (ret.op = "parse_map" /\ strip(ret.arg[1]) # HEADER) =>
        (ret.exc = "InvalidFileException" /\ mf = clear)

\* C10 witness: a whole text under another header has been refused.
C10_Witness ==
    /\ ret.op = "parse_map"
    /\ strip(ret.arg[1]) # HEADER
    /\ Len(ret.arg) > 9
    /\ ret.exc = "InvalidFileException"

\* C5 (as claimed): with a positive image size calibrate never fails, and with
\* no points it leaves an empty calibration.
C5_CalibrateNeverFails ==
    (ret.op = "calibrate" /\ SizePositive(mf)) =>
        /\ ret.exc = "none"
        /\ mf.points = <<>> => (mf.mmpxy = <<>> /\ mf.mmpll = <<>>)

C8_CornersExact ==
    (ret.op = "xy2latlon" /\ Len(mf.mmpll) = 4 /\ InOrder(mf) /\ SizePositive(mf)) =>
        \A k \in 1..4 :
            ret.arg = CornerPixel(mf, k) => (ret.exc = "none" /\ ret.val = <<mf.mmpll[k]>>)

\* C8 (amended): on every record with four mmpll entries and a positive image
\* size, xy2latlon at the pixel of corner k returns mmpll[k] when the two sides
\* of the quadrilateral mmpll that meet at corner k are not parallel (the
\* determinant _intersect_lines divides by is not 0).
C8_CornersExactIfSidesMeet ==
    (ret.op = "xy2latlon" /\ Len(mf.mmpll) = 4 /\ SizePositive(mf)) =>
        \A k \in 1..4 :
            (ret.arg = CornerPixel(mf, k) /\ SidesMeet(mf, k)) =>
                (ret.exc = "none" /\ ret.val = <<mf.mmpll[k]>>)

\* C8 witness: xy2latlon has returned the SE corner of a skewed map in the order
\* NW, NE, SE, SW whose sides are parallel at the NW corner and not at the SE one.
C8_Witness ==
    /\ ret.op = "xy2latlon"
    /\ Len(mf.mmpll) = 4
    /\ SizePositive(mf)
    /\ ret.arg = CornerPixel(mf, 3)
    /\ SidesMeet(mf, 3)
    /\ InOrder(mf)
    /\ ~SidesMeet(mf, 1)
    /\ ret.val = <<mf.mmpll[3]>>

====
